---- MODULE Spec2Model ----
(***************************************************************************)
(* State-machine model of three pieces of go-mysql-server:                 *)
(*   - expression.InTuple / expression.HashInTuple (sql/expression/in.go)  *)
(*   - analyzer.applyHashIn and analyzer.validateCreateTable               *)
(*   - plan.errorHandlerIter                                               *)
(* Each piece has its own specification (SpecIn, SpecPass, SpecIter,       *)
(* SpecDDL) over the same variables; the variables of the other pieces     *)
(* stay at their idle values.                                              *)
(***************************************************************************)
EXTENDS Integers, Sequences, FiniteSets, TLC

VARIABLES
  inLeft,      \* left operand of the IN expression under evaluation
  inRight,     \* right operand of the IN expression under evaluation
  row,         \* the sql.Row of the evaluation
  hit,         \* outcome of NewHashInTuple(inLeft, inRight)
  inRes,       \* outcome of InTuple.Eval
  hitRes,      \* outcome of HashInTuple.Eval
  plan,        \* the plan handed to / produced by applyHashIn
  plan0,       \* the plan before the last run of applyHashIn
  passes,      \* number of runs of applyHashIn so far
  passOut,     \* outcome of the last run of applyHashIn
  childLog,    \* what childIter.Next returned, call by call
  outLog,      \* what errorHandlerIter.Next returned, call by call
  handlerLog,  \* the arguments ErrorHandlerFunc was called with, in order
  ddlNode,     \* the node handed to validateCreateTable
  ddlOut       \* outcome of validateCreateTable

vars == <<inLeft, inRight, row, hit, inRes, hitRes, plan, plan0, passes,
          passOut, childLog, outLog, handlerLog, ddlNode, ddlOut>>

inVars   == <<inLeft, inRight, row, hit, inRes, hitRes>>
passVars == <<plan, plan0, passes, passOut>>
iterVars == <<childLog, outLog, handlerLog>>
ddlVars  == <<ddlNode, ddlOut>>

(***************************************************************************)
(* Bounds of the model.                                                    *)
(***************************************************************************)
MaxRight == 2     \* most candidate elements of a right-hand Tuple
MaxCalls == 3     \* most calls of errorHandlerIter.Next
MaxCols  == 2     \* most columns of a CREATE TABLE schema
MaxPasses == 2    \* most runs of applyHashIn over one plan
MaxIdx   == 2     \* most index definitions of a CREATE TABLE

Idle == [status |-> "idle"]
None == [status |-> "none"]

(***************************************************************************)
(* Values (interface{}): nil, sized integers, strings, []interface{}.      *)
(***************************************************************************)
Nil       == [k |-> "nil"]
I32(n)    == [k |-> "int32", n |-> n]
I64(n)    == [k |-> "int64", n |-> n]
Str(s)    == [k |-> "string", s |-> s]
Slice(vs) == [k |-> "slice", vs |-> vs]

(***************************************************************************)
(* sql.Type: the null type, two integer widths, text, and tuple types.     *)
(***************************************************************************)
NullT       == [k |-> "Null"]
Int32T      == [k |-> "Int32"]
Int64T      == [k |-> "Int64"]
TextT       == [k |-> "Text"]
TupleT(ts)  == [k |-> "Tuple", ts |-> ts]

NumColumns(t) == IF t.k = "Tuple" THEN Len(t.ts) ELSE 1

PromoteScalar(t) == IF t.k = "Int32" THEN Int64T ELSE t

Promote(t) ==
  IF t.k = "Tuple"
  THEN TupleT([i \in 1..Len(t.ts) |-> PromoteScalar(t.ts[i])])
  ELSE PromoteScalar(t)

\* The decimal strings the integer conversion parses.
Digits == [s \in {"1", "2"} |-> IF s = "1" THEN 1 ELSE 2]

Ok(v)    == [err |-> "", v |-> v]
Fail(e)  == [err |-> e, v |-> Nil]

\* Type.Convert for the scalar types: nil converts to nil; integers are
\* widened to int64 under Int64; a decimal string is parsed, any other string
\* does not convert.
ConvertScalar(t, v) ==
  CASE t.k = "Null"  -> IF v = Nil THEN Ok(Nil) ELSE Fail("ErrValueNotNil")
    [] t.k = "Int64" ->
         CASE v.k = "nil"    -> Ok(Nil)
           [] v.k = "int32"  -> Ok(I64(v.n))
           [] v.k = "int64"  -> Ok(I64(v.n))
           [] v.k = "string" -> IF v.s \in DOMAIN Digits THEN Ok(I64(Digits[v.s]))
                                ELSE Fail("ErrConvert")
           [] OTHER          -> Fail("ErrConvert")
    [] t.k = "Int32" ->
         CASE v.k = "nil"    -> Ok(Nil)
           [] v.k = "int32"  -> Ok(I32(v.n))
           [] v.k = "int64"  -> Ok(I32(v.n))
           [] v.k = "string" -> IF v.s \in DOMAIN Digits THEN Ok(I32(Digits[v.s]))
                                ELSE Fail("ErrConvert")
           [] OTHER          -> Fail("ErrConvert")
    [] t.k = "Text" ->
         CASE v.k = "nil"    -> Ok(Nil)
           [] v.k = "string" -> Ok(v)
           [] v.k = "int32"  -> Ok(Str(ToString(v.n)))
           [] v.k = "int64"  -> Ok(Str(ToString(v.n)))
           [] OTHER          -> Fail("ErrConvert")
    [] OTHER -> Fail("ErrConvert")

\* Type.Convert: a tuple type converts a []interface{} of its own length,
\* element by element, and nothing else.
Convert(t, v) ==
  IF t.k = "Tuple"
  THEN IF v.k # "slice" THEN Fail("ErrNotTuple")
       ELSE IF Len(v.vs) # Len(t.ts) THEN Fail("ErrInvalidColumnNumber")
       ELSE LET cs == [i \in 1..Len(t.ts) |-> ConvertScalar(t.ts[i], v.vs[i])]
                bad == {i \in 1..Len(t.ts) : cs[i].err # ""}
            IN IF bad # {}
               THEN Fail(cs[CHOOSE i \in bad : \A j \in bad : i <= j].err)
               ELSE Ok(Slice([i \in 1..Len(t.ts) |-> cs[i].v]))
  ELSE ConvertScalar(t, v)

\* Type.Compare on converted scalars (nulls first: two nils are equal, a nil
\* and a value are not).
CompareScalar(a, b) ==
  CASE a = Nil /\ b = Nil -> 0
    [] a = Nil            -> 1
    [] b = Nil            -> -1
    [] a.k = "string"     -> IF a = b THEN 0 ELSE 1
    [] OTHER              -> IF a.n < b.n THEN -1 ELSE IF a.n > b.n THEN 1 ELSE 0

\* Type.Compare: tuples are compared column by column.
Compare(t, a, b) ==
  IF t.k = "Tuple"
  THEN LET diff == {i \in 1..Len(t.ts) : CompareScalar(a.vs[i], b.vs[i]) # 0}
       IN IF diff = {} THEN 0
          ELSE LET i == CHOOSE i \in diff : \A j \in diff : i <= j
               IN CompareScalar(a.vs[i], b.vs[i])
  ELSE CompareScalar(a, b)

(***************************************************************************)
(* sql.Expression: Literal, GetField, Tuple, Subquery, Not, InTuple and    *)
(* HashInTuple.                                                            *)
(***************************************************************************)
NewLiteral(v, t)   == [kind |-> "Literal", value |-> v, type |-> t]
NewGetField(i, t)  == [kind |-> "GetField", index |-> i, type |-> t]
NewTuple(es)       == [kind |-> "Tuple", elems |-> es]
NewSubquery(v, t)  == [kind |-> "Subquery", value |-> v, type |-> t]
NewNot(e)          == [kind |-> "Not", child |-> e]

\* NewInTuple creates an InTuple expression.
NewInTuple(l, r)   == [kind |-> "InTuple", left |-> l, right |-> r]

\* Expression.Type of an operand without sub-expressions.
TypeOfScalar(e) == e.type

\* Expression.Type: a Tuple has the tuple type of its elements' types.
TypeOf(e) ==
  IF e.kind = "Tuple"
  THEN TupleT([i \in 1..Len(e.elems) |-> TypeOfScalar(e.elems[i])])
  ELSE TypeOfScalar(e)

\* Expression.Eval of an operand without sub-expressions.
EvalScalar(e, r) ==
  CASE e.kind = "Literal"  -> e.value
    [] e.kind = "GetField" -> r[e.index]
    [] e.kind = "Subquery" -> e.value

\* Expression.Eval: a Tuple evaluates to the slice of its elements' values.
EvalExpr(e, r) ==
  IF e.kind = "Tuple"
  THEN Slice([i \in 1..Len(e.elems) |-> EvalScalar(e.elems[i], r)])
  ELSE EvalScalar(e, r)

(***************************************************************************)
(* InTuple.Eval (in.go 60-125).  An outcome is [err, val, conv, cmpd]:     *)
(* err is "" for a nil error, val is "true", "false" or "null", conv and   *)
(* cmpd list the positions of the right elements handed to typ.Convert and *)
(* to typ.Compare.                                                         *)
(***************************************************************************)
EvalOut(e, v, conv, cmpd) == [err |-> e, val |-> v, conv |-> conv, cmpd |-> cmpd]

\* The second loop of InTuple.Eval, from element i on.
RECURSIVE InTupleScan(_, _, _, _, _, _, _, _)
InTupleScan(typ, left, elems, r, i, rightNull, conv, cmpd) ==
  IF i > Len(elems)
  THEN EvalOut("", IF rightNull THEN "null" ELSE "false", conv, cmpd)
  ELSE LET right == EvalExpr(elems[i], r) IN
       IF ~rightNull /\ right = Nil
       THEN InTupleScan(typ, left, elems, r, i + 1, TRUE, conv, cmpd)
       ELSE LET c == Convert(typ, right) IN
            IF c.err # ""
            THEN EvalOut(c.err, "", Append(conv, i), cmpd)
            ELSE IF Compare(typ, left, c.v) = 0
                 THEN EvalOut("", "true", Append(conv, i), Append(cmpd, i))
                 ELSE InTupleScan(typ, left, elems, r, i + 1, rightNull,
                                  Append(conv, i), Append(cmpd, i))

InTupleEval(in, r) ==
  LET typ == Promote(TypeOf(in.left))
      leftElems == NumColumns(typ)
      left == EvalExpr(in.left, r)
  IN IF left = Nil THEN EvalOut("", "null", <<>>, <<>>)
     ELSE LET l == Convert(typ, left) IN
          IF l.err # "" THEN EvalOut(l.err, "", <<>>, <<>>)
          ELSE IF in.right.kind = "Tuple"
          THEN IF \E i \in 1..Len(in.right.elems) :
                     NumColumns(TypeOf(in.right.elems[i])) # leftElems
               THEN EvalOut("ErrInvalidOperandColumns", "", <<>>, <<>>)
               ELSE InTupleScan(typ, l.v, in.right.elems, r, 1, FALSE, <<>>, <<>>)
          ELSE EvalOut("ErrUnsupportedInOperand", "", <<>>, <<>>)

(***************************************************************************)
(* Hashing (in.go 253-298).  fmt.Sprintf("%#v,", v) is the Go-syntax       *)
(* rendering of the converted value; the xxhash sum of the bytes written   *)
(* is represented by the byte string itself (no collisions between the     *)
(* few strings of this model).  A hash outcome is [status, err, key] with  *)
(* status "ok", "err" or "panic".                                          *)
(***************************************************************************)
Fmt(v) ==
  CASE v.k = "nil"    -> "<nil>,"
    [] v.k = "int32"  -> ToString(v.n) \o ","
    [] v.k = "int64"  -> ToString(v.n) \o ","
    [] v.k = "string" -> "\"" \o v.s \o "\","
    [] OTHER          -> "[]interface {}{...},"

HashOk(key)  == [status |-> "ok", err |-> "", key |-> key]
HashErr(e)   == [status |-> "err", err |-> e, key |-> ""]
HashPanic    == [status |-> "panic", err |-> "index out of range", key |-> ""]

\* hashOfLiteral that hashes the literal's own value, not the converted one.
hashOfLiteralRaw(l, t) ==
  IF Convert(Promote(t), l.value).err # ""
  THEN HashErr("ErrInvalidType")
  ELSE HashOk(Fmt(l.value))

hashOfLiteral(l, t) ==
  LET i == Convert(Promote(t), l.value)
  IN IF i.err # "" THEN HashErr("ErrInvalidType") ELSE HashOk(Fmt(i.v))

\* The loop of hashOfTuple from element i on; written is what hash.Write got.
\* t[i] beyond the tuple type's length is an index out of range.
RECURSIVE hashOfTupleFrom(_, _, _, _)
hashOfTupleFrom(tup, t, i, written) ==
  IF i > Len(tup.elems) THEN HashOk(written)
  ELSE LET el == tup.elems[i] IN
       IF el.kind = "Literal"
       THEN IF i > Len(t.ts) THEN HashPanic
            ELSE LET converted == Convert(Promote(t.ts[i]), el.value) IN
                 IF converted.err # "" THEN HashErr(converted.err)
                 ELSE hashOfTupleFrom(tup, t, i + 1, written \o Fmt(converted.v))
       ELSE HashErr("ErrCantHashNestedExpression")

hashOfTuple(tup, t) == hashOfTupleFrom(tup, t, 1, "")

hashOf(e, t) ==
  CASE e.kind = "Tuple"   -> IF t.k # "Tuple" THEN HashErr("ErrInvalidType")
                             ELSE hashOfTuple(e, t)
    [] e.kind = "Literal" -> hashOfLiteral(e, t)
    [] OTHER              -> HashErr("ErrUnsupportedHashInSubexpression")

(***************************************************************************)
(* newInMap and NewHashInTuple (in.go 163-170, 222-251).  A build outcome  *)
(* is [status, err, cmp, hasNull]; cmp maps a key to the candidate element *)
(* stored under it.                                                        *)
(***************************************************************************)
EmptyMap == [key \in {} |-> Nil]
Put(m, key, el) == [x \in DOMAIN m \cup {key} |-> IF x = key THEN el ELSE m[x]]

BuildOk(cmp, hasNull) == [status |-> "ok", err |-> "", cmp |-> cmp, hasNull |-> hasNull]
BuildErr(e)  == [status |-> "err", err |-> e, cmp |-> EmptyMap, hasNull |-> FALSE]
BuildPanic   == [status |-> "panic", err |-> "index out of range", cmp |-> EmptyMap,
                 hasNull |-> FALSE]

RECURSIVE newInMapFrom(_, _, _, _)

\* What the loop of newInMap does with the outcome h of hashOf(el, lType)
\* for element i: skip the element on ErrInvalidType, stop on any other
\* error, else store the element under its key and go on.
newInMapPut(right, lType, i, elements, h) ==
  CASE h.status = "panic"       -> BuildPanic
    [] h.err = "ErrInvalidType" -> newInMapFrom(right, lType, i + 1, elements)
    [] h.status = "err"         -> BuildErr(h.err)
    [] OTHER -> newInMapFrom(right, lType, i + 1, Put(elements, h.key, right.elems[i]))

\* The loop of newInMap over the right Tuple, from element i on.
newInMapFrom(right, lType, i, elements) ==
  IF i > Len(right.elems) THEN BuildOk(elements, FALSE)
  ELSE IF right.elems[i].kind \in {"Literal", "Tuple"}
       THEN newInMapPut(right, lType, i, elements, hashOf(right.elems[i], lType))
       ELSE BuildErr("ErrUnsupportedHashInSubexpression")

\* newInMap that also raises hasNull for a NULL literal among the candidates.
newInMapNullFlag(expr, lType) ==
  IF lType = NullT THEN BuildOk(EmptyMap, TRUE)
  ELSE IF expr.kind = "Tuple"
  THEN LET b == newInMapFrom(expr, lType, 1, EmptyMap) IN
       IF b.status = "ok"
       THEN BuildOk(b.cmp, \E i \in 1..Len(expr.elems) :
                              /\ expr.elems[i].kind = "Literal"
                              /\ expr.elems[i].value = Nil)
       ELSE b
  ELSE BuildErr("ErrUnsupportedHashInOperand")

newInMap(expr, lType) ==
  IF lType = NullT THEN BuildOk(EmptyMap, TRUE)
  ELSE IF expr.kind = "Tuple" THEN newInMapFrom(expr, lType, 1, EmptyMap)
  ELSE BuildErr("ErrUnsupportedHashInOperand")

\* NewHashInTuple: the build outcome; on success the expression is
\* HashInTupleOf(left, right, outcome).
NewHashInTuple(left, right) == newInMap(right, TypeOf(left))

HashInTupleOf(left, right, b) ==
  [kind |-> "HashInTuple", left |-> left, right |-> right,
   cmp |-> b.cmp, hasNull |-> b.hasNull]

(***************************************************************************)
(* normalizeLeft and HashInTuple.Eval (in.go 173-211, 300-326).            *)
(***************************************************************************)
\* The function normalizeLeft hands to TransformUp for a Tuple.
normalizeElem(e, r) ==
  IF e.kind = "GetField" THEN NewLiteral(EvalScalar(e, r), e.type) ELSE e

normalizeLeft(expr, r) ==
  CASE expr.kind = "Tuple" ->
         [err |-> "", e |-> NewTuple([i \in 1..Len(expr.elems) |->
                                         normalizeElem(expr.elems[i], r)])]
    [] expr.kind = "Literal"  -> [err |-> "", e |-> expr]
    [] expr.kind = "GetField" ->
         [err |-> "", e |-> NewLiteral(EvalScalar(expr, r), expr.type)]
    [] OTHER -> [err |-> "ErrUnsupportedHashInOperand", e |-> expr]

HitOut(e, v, key) == [err |-> e, val |-> v, key |-> key]

\* h is a HashInTuple expression.
HashInTupleEval(h, r) ==
  IF h.hasNull THEN HitOut("", "null", "")
  ELSE LET nl == normalizeLeft(h.left, r) IN
       IF nl.err # "" THEN HitOut(nl.err, "", "")
       ELSE LET left == nl.e
                leftElems == NumColumns(Promote(TypeOf(left)))
                leftVal == EvalExpr(left, r)
            IN IF leftVal = Nil THEN HitOut("", "null", "")
               ELSE LET k == hashOf(left, TypeOf(h.left)) IN
                    IF k.status # "ok" THEN HitOut(k.err, "", "")
                    ELSE IF k.key \notin DOMAIN h.cmp THEN HitOut("", "false", k.key)
                    ELSE IF NumColumns(Promote(TypeOf(h.cmp[k.key]))) # leftElems
                         THEN HitOut("ErrInvalidOperandColumns", "", k.key)
                         ELSE HitOut("", "true", k.key)

(***************************************************************************)
(* SpecIn: one IN expression, built and evaluated both ways on one row.    *)
(***************************************************************************)
L1   == NewLiteral(I64(1), Int64T)
L2   == NewLiteral(I64(2), Int64T)
L1w  == NewLiteral(I32(1), Int32T)
LS1  == NewLiteral(Str("1"), TextT)
LSa  == NewLiteral(Str("abc"), TextT)
LN   == NewLiteral(Nil, NullT)
GF1  == NewGetField(1, Int64T)
GF2  == NewGetField(2, Int32T)
SQ   == NewSubquery(I64(2), Int64T)

\* Rows of two columns: an int64 column and an int32 column, both nullable.
Rows == {<<x, y>> : x \in {Nil, I64(1), I64(2)}, y \in {Nil, I32(2)}}

Lefts ==
  {L1, L1w, LN, GF1, GF2,
   NewTuple(<<GF1, GF2>>), NewTuple(<<L1, L2>>), NewTuple(<<GF1, SQ>>),
   NewTuple(<<L1, L2, L1>>)}

Candidates ==
  {L1, L2, L1w, LS1, LSa, LN, GF2,
   NewTuple(<<L1, L2>>), NewTuple(<<L2, L2>>), NewTuple(<<L1, GF2>>),
   NewTuple(<<L1, LSa>>), NewTuple(<<L1, L2, L1>>)}

RECURSIVE SeqsUpTo(_, _)
SeqsUpTo(S, n) ==
  IF n = 0 THEN {<<>>}
  ELSE LET shorter == SeqsUpTo(S, n - 1)
       IN shorter \cup {Append(q, x) : q \in {p \in shorter : Len(p) = n - 1}, x \in S}

\* Right operands: Tuples of candidates, and one operand that is no Tuple.
Rights == {NewTuple(q) : q \in SeqsUpTo(Candidates, MaxRight)} \cup {L1}

InIdle ==
  /\ inLeft = Idle /\ inRight = Idle /\ row = Idle
  /\ hit = Idle /\ inRes = Idle /\ hitRes = Idle
PassIdle == plan = Idle /\ plan0 = Idle /\ passes = 0 /\ passOut = Idle
IterIdle == childLog = <<>> /\ outLog = <<>> /\ handlerLog = <<>>
DDLIdle  == ddlNode = Idle /\ ddlOut = Idle

InitIn ==
  /\ inLeft \in Lefts
  /\ inRight \in Rights
  /\ row \in Rows
  /\ hit = None /\ inRes = None /\ hitRes = None
  /\ PassIdle /\ IterIdle /\ DDLIdle

\* in.Eval(ctx, row) on NewInTuple(inLeft, inRight).
EvalInTuple ==
  /\ inRes = None
  /\ inRes' = InTupleEval(NewInTuple(inLeft, inRight), row)
  /\ UNCHANGED <<inLeft, inRight, row, hit, hitRes, passVars, iterVars, ddlVars>>

\* NewHashInTuple(inLeft, inRight).
BuildHashInTuple ==
  /\ inRes # None /\ hit = None
  /\ hit' = NewHashInTuple(inLeft, inRight)
  /\ UNCHANGED <<inLeft, inRight, row, inRes, hitRes, passVars, iterVars, ddlVars>>

\* hit.Eval(ctx, row) on the HashInTuple that was built.
EvalHashInTuple ==
  /\ hit # None /\ hit.status = "ok" /\ hitRes = None
  /\ hitRes' = HashInTupleEval(HashInTupleOf(inLeft, inRight, hit), row)
  /\ UNCHANGED <<inLeft, inRight, row, hit, inRes, passVars, iterVars, ddlVars>>

NextIn == EvalInTuple \/ BuildHashInTuple \/ EvalHashInTuple

SpecIn == InitIn /\ [][NextIn]_vars

(***************************************************************************)
(* expression.TransformUp and the function applyHashIn hands to it         *)
(* (part_000 112-124).  A transform outcome is [status, err, e, matched,   *)
(* reverted]: matched counts the InTuple nodes handed to NewHashInTuple,   *)
(* reverted the HashInTuple nodes whose WithChildren returned an InTuple.  *)
(***************************************************************************)
Children(e) ==
  CASE e.kind = "Tuple"                    -> e.elems
    [] e.kind = "Not"                      -> <<e.child>>
    [] e.kind \in {"InTuple", "HashInTuple"} -> <<e.left, e.right>>
    [] OTHER                               -> <<>>

\* Tuple.WithChildren and Not.WithChildren.
WithChildrenOther(e, ch) ==
  IF e.kind = "Tuple" THEN NewTuple(ch) ELSE NewNot(ch[1])

\* InTuple.WithChildren (in.go 128-133).  HashInTuple embeds InTuple and
\* declares no WithChildren of its own, so this method is also the one a
\* HashInTuple answers with.
InTupleWithChildren(e, ch) == NewInTuple(ch[1], ch[2])

WithChildren(e, ch) ==
  IF e.kind \in {"InTuple", "HashInTuple"}
  THEN InTupleWithChildren(e, ch)
  ELSE WithChildrenOther(e, ch)

XOk(e, m, rv)  == [status |-> "ok", err |-> "", e |-> e, matched |-> m, reverted |-> rv]
XErr(st, err)  == [status |-> st, err |-> err, e |-> None, matched |-> 0, reverted |-> 0]

\* What the function of applyHashIn returns for the outcome b of
\* NewHashInTuple: the HashInTuple, or the build's error.
hashInOrError(expr, b) ==
  IF b.status = "ok"
  THEN XOk(HashInTupleOf(expr.left, expr.right, b), 1, 0)
  ELSE XErr(b.status, b.err)

\* The function of applyHashIn (part_000 112-124) on one expression node.
applyHashInExpr(expr) ==
  IF expr.kind = "InTuple" /\ expr.left.kind \in {"Tuple", "Literal", "GetField"}
  THEN hashInOrError(expr, NewHashInTuple(expr.left, expr.right))
  ELSE XOk(expr, 0, 0)

RECURSIVE SumTo(_, _)
SumTo(f, n) == IF n = 0 THEN 0 ELSE f[n] + SumTo(f, n - 1)

\* The outcome r of a node's own step, with the counts of its subtree added.
AddCounts(r, m, rv) ==
  IF r.status # "ok" THEN r ELSE XOk(r.e, r.matched + m, r.reverted + rv)

\* TransformUp on node e once its children ch have the outcomes cs: the
\* first child that failed ends the walk; else WithChildren when there are
\* children, then f on the node.
TransformUpNode(e, ch, cs) ==
  LET bad == {i \in 1..Len(ch) : cs[i].status # "ok"}
      e2  == IF Len(ch) = 0 THEN e
             ELSE WithChildren(e, [i \in 1..Len(ch) |-> cs[i].e])
  IN IF bad # {}
     THEN cs[CHOOSE i \in bad : \A j \in bad : i <= j]
     ELSE AddCounts(applyHashInExpr(e2),
                    SumTo([i \in 1..Len(ch) |-> cs[i].matched], Len(ch)),
                    SumTo([i \in 1..Len(ch) |-> cs[i].reverted], Len(ch))
                      + (IF e.kind = "HashInTuple" /\ e2.kind = "InTuple"
                         THEN 1 ELSE 0))

\* expression.TransformUp(e, f) with f the function of applyHashIn.
RECURSIVE TransformUp(_)
TransformUp(e) ==
  TransformUpNode(e, Children(e),
                  [i \in 1..Len(Children(e)) |-> TransformUp(Children(e)[i])])

(***************************************************************************)
(* Plans: Table, Project(expression, child), Filter(expression, child).    *)
(* plan.TransformUpCtx and applyHashIn (part_000 105-130).                 *)
(***************************************************************************)
Table             == [kind |-> "Table"]
NewProject(e, c)  == [kind |-> "Project", expression |-> e, child |-> c]
NewFilter(e, c)   == [kind |-> "Filter", expression |-> e, child |-> c]

PlanChildren(n) == IF n.kind = "Table" THEN <<>> ELSE <<n.child>>

\* Node.WithChildren of Project and Filter.
PlanWithChildren(n, ch) == [n EXCEPT !.child = ch[1]]

\* Filter.WithExpressions.
FilterWithExpressions(n, e) == [n EXCEPT !.expression = e]

POk(n, m, rv)  == [status |-> "ok", err |-> "", node |-> n, matched |-> m, reverted |-> rv]
PErr(st, err)  == [status |-> st, err |-> err, node |-> None, matched |-> 0, reverted |-> 0]

\* The end of the function of applyHashIn, with e the outcome of
\* TransformUp on the filter's expression.
filterOrError(n, e) ==
  IF e.status # "ok" THEN PErr(e.status, e.err)
  ELSE POk(FilterWithExpressions(n, e.e), e.matched, e.reverted)

\* The function applyHashIn hands to TransformUpCtx, on one plan node.
applyHashInNode(n) ==
  IF n.kind # "Filter" THEN POk(n, 0, 0)
  ELSE filterOrError(n, TransformUp(n.expression))

\* The outcome r of a plan node's own step, with the counts of its subtree.
AddPlanCounts(r, m, rv) ==
  IF r.status # "ok" THEN r ELSE POk(r.node, r.matched + m, r.reverted + rv)

\* TransformUpCtx on node n once its child has the outcome c.
TransformUpCtxNode(n, c) ==
  IF c.status # "ok" THEN c
  ELSE AddPlanCounts(applyHashInNode(IF Len(PlanChildren(n)) = 0 THEN n
                                     ELSE PlanWithChildren(n, <<c.node>>)),
                     c.matched, c.reverted)

\* plan.TransformUpCtx(n, nil, f): the child first, then the node.
RECURSIVE TransformUpCtx(_)
TransformUpCtx(n) ==
  TransformUpCtxNode(n, IF Len(PlanChildren(n)) = 0 THEN POk(None, 0, 0)
                        ELSE TransformUpCtx(n.child))

applyHashIn(n) == TransformUpCtx(n)

(***************************************************************************)
(* SpecPass: applyHashIn run over a plan, and over its own result.         *)
(***************************************************************************)
PassLefts == {L1, GF1, SQ, NewTuple(<<GF1, GF2>>), NewTuple(<<GF1, SQ>>)}

PassRights ==
  {NewTuple(<<L1, L2>>), NewTuple(<<L1, LN>>), NewTuple(<<L1, GF2>>),
   NewTuple(<<NewTuple(<<L1, L2>>)>>),
   NewTuple(<<NewTuple(<<L1, L2>>), NewTuple(<<L1, L2, L1>>)>>),
   L1}

PassIns   == {NewInTuple(l, r) : l \in PassLefts, r \in PassRights}
PassExprs == PassIns \cup {NewNot(e) : e \in PassIns} \cup {L1}

Plans ==
  {Table}
    \cup {NewFilter(e, Table) : e \in PassExprs}
    \cup {NewProject(e, Table) : e \in PassExprs}
    \cup {NewProject(L1, NewFilter(e, Table)) : e \in PassExprs}
    \cup {NewFilter(e, NewFilter(NewInTuple(GF1, NewTuple(<<L1, L2>>)), Table)) :
            e \in PassExprs}

InitPass ==
  /\ plan \in Plans
  /\ plan0 = None /\ passes = 0 /\ passOut = None
  /\ InIdle /\ IterIdle /\ DDLIdle

\* One run of the pass over the current plan; a run that returns an error
\* or aborts leaves no plan.
ApplyHashIn ==
  /\ passes < MaxPasses
  /\ passes > 0 => passOut.status = "ok"
  /\ \E out \in {applyHashIn(plan)} :
       /\ passOut' = [status |-> out.status, err |-> out.err,
                      matched |-> out.matched, reverted |-> out.reverted]
       /\ plan' = out.node
  /\ plan0' = plan
  /\ passes' = passes + 1
  /\ UNCHANGED <<inVars, iterVars, ddlVars>>

NextPass == ApplyHashIn

SpecPass == InitPass /\ [][NextPass]_vars

(***************************************************************************)
(* errorHandlerIter.Next (in.go 399-411).  A result of a Next call is      *)
(* [row, err] with err "" for nil and "EOF" for io.EOF.                    *)
(***************************************************************************)
NilRow == "nil"
ChildResults ==
  {[row |-> r, err |-> ""] : r \in {"row1", "row2"}}
    \cup {[row |-> NilRow, err |-> e] : e \in {"EOF", "ErrA", "ErrB"}}

\* Next that has no io.EOF case: every child error goes to the handler.
errorHandlerIterNextNoEOF(c) ==
  [out |-> [row |-> c.row, err |-> ""],
   handled |-> IF c.err # "" THEN <<c.err>> ELSE <<>>]

\* c is what e.childIter.Next() returned; out is what Next returns and
\* handled the calls of e.ErrorHandlerFunc it makes.
errorHandlerIterNext(c) ==
  IF c.err = "EOF" THEN [out |-> [row |-> c.row, err |-> c.err], handled |-> <<>>]
  ELSE [out |-> [row |-> c.row, err |-> ""],
        handled |-> IF c.err # "" THEN <<c.err>> ELSE <<>>]

InitIter ==
  /\ childLog = <<>> /\ outLog = <<>> /\ handlerLog = <<>>
  /\ InIdle /\ PassIdle /\ DDLIdle

\* One call of errorHandlerIter.Next, the child answering c.
IterNext ==
  /\ Len(childLog) < MaxCalls
  /\ \E c \in ChildResults :
       /\ childLog' = Append(childLog, c)
       /\ outLog' = Append(outLog, errorHandlerIterNext(c).out)
       /\ handlerLog' = handlerLog \o errorHandlerIterNext(c).handled
  /\ UNCHANGED <<inVars, passVars, ddlVars>>

NextIter == IterNext

SpecIter == InitIter /\ [][NextIter]_vars

(***************************************************************************)
(* validateCreateTable (part_000 26-82).  A column is [Name,               *)
(* AutoIncrement, PrimaryKey, HasDefault] (HasDefault: Default != nil); an *)
(* index definition is [IndexName, Columns].                               *)
(***************************************************************************)
\* strings.ToLower on the names of the model.
ToLower ==
  [s \in {"a", "A", "b", "B", "c"} |->
     CASE s = "A" -> "a" [] s = "B" -> "b" [] OTHER -> s]

\* The loop of validateAutoIncrement from column i on.
RECURSIVE validateAutoIncrementFrom(_, _, _)
validateAutoIncrementFrom(schema, i, seen) ==
  IF i > Len(schema) THEN ""
  ELSE IF schema[i].AutoIncrement
       THEN IF ~schema[i].PrimaryKey THEN "ErrInvalidAutoIncCols"
            ELSE IF schema[i].HasDefault THEN "ErrInvalidAutoIncCols"
            ELSE IF seen THEN "ErrInvalidAutoIncCols"
            ELSE validateAutoIncrementFrom(schema, i + 1, TRUE)
       ELSE validateAutoIncrementFrom(schema, i + 1, seen)

\* validateAutoIncrement that does not count the AUTO_INCREMENT columns.
validateAutoIncrementUncounted(schema) ==
  IF \E i \in 1..Len(schema) :
       schema[i].AutoIncrement /\ (~schema[i].PrimaryKey \/ schema[i].HasDefault)
  THEN "ErrInvalidAutoIncCols" ELSE ""

validateAutoIncrement(schema) == validateAutoIncrementFrom(schema, 1, FALSE)

\* validateIndexes: the first index column, in order, whose lower-cased
\* name is not a lower-cased schema column name is reported.
validateIndexes(schema, idxDefs) ==
  LET lwrNames == {ToLower[schema[i].Name] : i \in 1..Len(schema)}
  IN IF \E i \in 1..Len(idxDefs) : \E j \in 1..Len(idxDefs[i].Columns) :
          ToLower[idxDefs[i].Columns[j]] \notin lwrNames
     THEN "ErrUnknownIndexColumn" ELSE ""

DDLOut(n, e) == [node |-> n, err |-> e]

validateCreateTable(n) ==
  IF n.kind # "CreateTable" THEN DDLOut(n, "")
  ELSE IF validateAutoIncrement(n.CreateSchema) # ""
       THEN DDLOut(None, validateAutoIncrement(n.CreateSchema))
  ELSE IF validateIndexes(n.CreateSchema, n.IdxDefs) # ""
       THEN DDLOut(None, validateIndexes(n.CreateSchema, n.IdxDefs))
  ELSE DDLOut(n, "")

Columns ==
  [Name : {"a", "B"}, AutoIncrement : BOOLEAN, PrimaryKey : BOOLEAN,
   HasDefault : BOOLEAN]

IndexDefs ==
  {[IndexName |-> "idx", Columns |-> cs] :
     cs \in {<<"A">>, <<"c">>, <<"b", "A">>}}

DDLNodes ==
  {[kind |-> "CreateTable", CreateSchema |-> sch, IdxDefs |-> idx] :
     sch \in SeqsUpTo(Columns, MaxCols), idx \in SeqsUpTo(IndexDefs, MaxIdx)}
    \cup {Table}

InitDDL ==
  /\ ddlNode \in DDLNodes
  /\ ddlOut = None
  /\ InIdle /\ PassIdle /\ IterIdle

ValidateCreateTable ==
  /\ ddlOut = None
  /\ ddlOut' = validateCreateTable(ddlNode)
  /\ UNCHANGED <<ddlNode, inVars, passVars, iterVars>>

NextDDL == ValidateCreateTable

SpecDDL == InitDDL /\ [][NextDDL]_vars

(***************************************************************************)
(* Properties of SpecIn.                                                   *)
(***************************************************************************)
InTyp       == Promote(TypeOf(inLeft))
InLeftVal   == EvalExpr(inLeft, row)
RightElems  == IF inRight.kind = "Tuple" THEN inRight.elems ELSE <<>>
RightIdx    == 1..Len(RightElems)
RightVal(i) == EvalExpr(RightElems[i], row)
SameArity(i) == NumColumns(TypeOf(RightElems[i])) = NumColumns(TypeOf(inLeft))

\* Right element i has the left operand's column count and compares equal to
\* the left value under the left operand's promoted type.
MatchAt(i) ==
  /\ SameArity(i)
  /\ RightVal(i) # Nil
  /\ Convert(InTyp, InLeftVal).err = ""
  /\ Convert(InTyp, RightVal(i)).err = ""
  /\ Compare(InTyp, Convert(InTyp, InLeftVal).v, Convert(InTyp, RightVal(i)).v) = 0

BothEvaluated == inRes # None /\ hit # None /\ hit.status = "ok" /\ hitRes # None
IsTrue(out)  == out.err = "" /\ out.val = "true"
IsFalse(out) == out.err = "" /\ out.val = "false"
IsNull(out)  == out.err = "" /\ out.val = "null"

\* A Literal, a GetField, or a Tuple all of whose sub-expressions are.
DeepEligible(l) ==
  \/ l.kind \in {"Literal", "GetField"}
  \/ /\ l.kind = "Tuple"
     /\ \A i \in 1..Len(l.elems) : l.elems[i].kind \in {"Literal", "GetField"}

C3_ThreeValuedNullsSkipped ==
  inRes # None =>
    /\ InLeftVal = Nil => IsNull(inRes)
    /\ (InLeftVal # Nil /\ inRes.err = "") =>
         /\ \A i \in RightIdx :
              RightVal(i) = Nil => (~\E j \in 1..Len(inRes.conv) : inRes.conv[j] = i)
                                   /\ (~\E j \in 1..Len(inRes.cmpd) : inRes.cmpd[j] = i)
         /\ IsTrue(inRes) <=> \E i \in RightIdx : MatchAt(i)
         /\ IsNull(inRes) <=> /\ ~\E i \in RightIdx : MatchAt(i)
                              /\ \E i \in RightIdx : RightVal(i) = Nil
         /\ IsFalse(inRes) <=> /\ ~\E i \in RightIdx : MatchAt(i)
                               /\ ~\E i \in RightIdx : RightVal(i) = Nil

\* The key HashInTuple.Eval probes the index with, for the current row.
LeftKey == hashOf(normalizeLeft(inLeft, row).e, TypeOf(inLeft))

\* C4: the hasNull flag is set iff the left type is the null type;
\* HashInTuple.Eval returns null only when the flag is set or the left value
\* of the row is null; for a non-null left value whose key is not in the
\* index it returns false.
C4_HashNullOnlyForNullLeft ==
  /\ (hit # None /\ hit.status = "ok") => (hit.hasNull <=> TypeOf(inLeft) = NullT)
  /\ hitRes # None =>
       /\ IsNull(hitRes) => (hit.hasNull \/ InLeftVal = Nil)
       /\ (~hit.hasNull /\ InLeftVal # Nil /\ LeftKey.status = "ok"
             /\ LeftKey.key \notin DOMAIN hit.cmp) => IsFalse(hitRes)

\* C4 witness: a NULL literal among the candidates, a non-null left value
\* that is not in the index, and the answer false.
C4_Witness ==
  /\ hitRes # None /\ IsFalse(hitRes) /\ InLeftVal # Nil
  /\ \E i \in RightIdx : RightElems[i] = LN
  /\ LeftKey.key \notin DOMAIN hit.cmp

LiteralOnly(e) ==
  \/ e.kind = "Literal"
  \/ e.kind = "Tuple" /\ \A i \in 1..Len(e.elems) : e.elems[i].kind = "Literal"

\* C7 as stated: with a non-null left type, index construction fails as a
\* whole when some candidate is not a Literal or a Tuple of Literals, for
\* every left type; every entry of a built index is Literal-only.
C7_NonLiteralAbortsBuild ==
  (hit # None /\ TypeOf(inLeft) # NullT) =>
    /\ (inRight.kind = "Tuple" /\ \E i \in RightIdx : ~LiteralOnly(RightElems[i]))
         => hit.status = "err"
    /\ hit.status = "ok" => \A key \in DOMAIN hit.cmp : LiteralOnly(hit.cmp[key])

\* C8 as stated: index construction ends with an index or with a build
\* failure returned as a value; it never aborts the program.
C8_BuildNeverAborts ==
  hit # None => hit.status \in {"ok", "err"}

(***************************************************************************)
(* Properties of SpecPass.                                                 *)
(***************************************************************************)
RECURSIVE PlanNodes(_)
PlanNodes(n) ==
  IF Len(PlanChildren(n)) = 0 THEN <<n>> ELSE <<n>> \o PlanNodes(n.child)

\* The membership test of a filter or projection expression, under a Not
\* when there is one.
Core(e) == IF e.kind = "Not" THEN e.child ELSE e

PassRan  == passes >= 1
PassOk   == PassRan /\ passOut.status = "ok"

\* C2 as stated: when the plan holds, in a Filter, an InTuple with a
\* Literal, GetField or Tuple on the left whose index build fails, the pass
\* returns no error and the plan still holds that InTuple unchanged.
C2_BuildFailureIsSilent ==
  PassRan =>
    \A i \in 1..Len(PlanNodes(plan0)) :
      LET a == PlanNodes(plan0)[i] IN
      (/\ a.kind = "Filter"
       /\ Core(a.expression).kind = "InTuple"
       /\ Core(a.expression).left.kind \in {"Literal", "GetField", "Tuple"}
       /\ NewHashInTuple(Core(a.expression).left, Core(a.expression).right).status = "err")
      => /\ passOut.status = "ok"
         /\ PlanNodes(plan)[i].expression = a.expression

C6_SecondRunTouchesNothing ==
  (passes >= 2 /\ passOut.status = "ok") =>
    /\ plan = plan0
    /\ passOut.matched = 0
    /\ passOut.reverted = 0

(***************************************************************************)
(* Properties of SpecIter.                                                 *)
(***************************************************************************)
IsChildError(c) == c.err \notin {"", "EOF"}

RECURSIVE ErrorsOf(_)
ErrorsOf(log) ==
  IF log = <<>> THEN <<>>
  ELSE (IF IsChildError(Head(log)) THEN <<Head(log).err>> ELSE <<>>)
         \o ErrorsOf(Tail(log))

\* C9: every Next call answers one child call; Next returns an error only
\* for the child's io.EOF, and then io.EOF; a row returned without error is
\* forwarded unchanged; any other child error is answered without error; the
\* handler got exactly the child's non-EOF errors, once each, in order.
C9_ErrorsHandledEOFForwarded ==
  /\ Len(outLog) = Len(childLog)
  /\ \A i \in 1..Len(childLog) :
       /\ outLog[i].err # "" => (childLog[i].err = "EOF" /\ outLog[i].err = "EOF")
       /\ childLog[i].err = "EOF" => outLog[i].err = "EOF"
       /\ childLog[i].err = "" => outLog[i] = childLog[i]
       /\ outLog[i].row = childLog[i].row
  /\ handlerLog = ErrorsOf(childLog)

\* C9 witness: an error, then a row, then another error, all answered, the
\* handler called for the two errors in order.
C9_Witness ==
  /\ Len(childLog) = 3
  /\ childLog[1].err = "ErrB" /\ childLog[2].row = "row1" /\ childLog[3].err = "ErrA"
  /\ handlerLog = <<"ErrB", "ErrA">>
  /\ outLog[2] = childLog[2]

\* C9 witness of the end of data: io.EOF after an error is returned as
\* io.EOF and the handler is not called for it.
C9_WitnessEOF ==
  /\ Len(childLog) = 2
  /\ childLog[1].err = "ErrA" /\ childLog[2].err = "EOF"
  /\ outLog[2].err = "EOF" /\ handlerLog = <<"ErrA">>

(***************************************************************************)
(* Properties of SpecDDL.                                                  *)
(***************************************************************************)
AutoIncOk(schema) ==
  /\ \A i \in 1..Len(schema) :
       schema[i].AutoIncrement => (schema[i].PrimaryKey /\ ~schema[i].HasDefault)
  /\ Cardinality({i \in 1..Len(schema) : schema[i].AutoIncrement}) <= 1

\* The two names are equal up to letter case.
EqualFold(a, b) ==
  \/ a = b
  \/ <<a, b>> \in {<<"a", "A">>, <<"A", "a">>, <<"b", "B">>, <<"B", "b">>}

IndexesOk(schema, idxDefs) ==
  \A i \in 1..Len(idxDefs) : \A j \in 1..Len(idxDefs[i].Columns) :
    \E k \in 1..Len(schema) : EqualFold(idxDefs[i].Columns[j], schema[k].Name)

\* C10: a CreateTable node is returned unchanged without error iff its
\* AUTO_INCREMENT columns are primary keys without default, at most one
\* column is AUTO_INCREMENT and every index column names a schema column up
\* to letter case; otherwise an error and no node, the auto-increment error
\* first; any other node is returned unchanged without error.
C10_ValidateCreateTable ==
  ddlOut # None =>
    IF ddlNode.kind # "CreateTable" THEN ddlOut = DDLOut(ddlNode, "")
    ELSE /\ ddlOut.err = "" <=> (/\ AutoIncOk(ddlNode.CreateSchema)
                                 /\ IndexesOk(ddlNode.CreateSchema, ddlNode.IdxDefs))
         /\ ddlOut.err = "" => ddlOut.node = ddlNode
         /\ ddlOut.err # "" => ddlOut.node = None
         /\ ~AutoIncOk(ddlNode.CreateSchema) => ddlOut.err = "ErrInvalidAutoIncCols"
         /\ (/\ AutoIncOk(ddlNode.CreateSchema)
             /\ ~IndexesOk(ddlNode.CreateSchema, ddlNode.IdxDefs))
              => ddlOut.err = "ErrUnknownIndexColumn"

\* C10 witness: a schema with an AUTO_INCREMENT column that breaks the rule
\* and an index on an unknown column: the auto-increment error is returned.
C10_Witness ==
  /\ ddlOut # None /\ ddlNode.kind = "CreateTable"
  /\ ~AutoIncOk(ddlNode.CreateSchema)
  /\ ~IndexesOk(ddlNode.CreateSchema, ddlNode.IdxDefs)
  /\ ddlOut = DDLOut(None, "ErrInvalidAutoIncCols")

\* C10 witness of acceptance: an index names column "A" of a schema whose
\* column is "a", one AUTO_INCREMENT primary key, returned unchanged.
C10_WitnessAccepted ==
  /\ ddlOut # None /\ ddlNode.kind = "CreateTable"
  /\ \E i \in 1..Len(ddlNode.CreateSchema) : ddlNode.CreateSchema[i].AutoIncrement
  /\ Len(ddlNode.IdxDefs) >= 1
  /\ ddlOut = DDLOut(ddlNode, "")

====
